---- MODULE Spec2Model ----
(***************************************************************************)
(* candy-lfs CLI: the credential/session subsystem.                        *)
(*   api.py     APIError, APIClient._request, wait_for_github_auth         *)
(*   config.py  Config (the YAML session file and the git credential       *)
(*              helper used as secret store)                               *)
(*   cli.py     login, logout, select_tenant, set_endpoint                 *)
(* Two specifications share the variables:                                 *)
(*   Spec      the session: one action per CLI command / Config method;    *)
(*             login runs the whole device flow inside its action.         *)
(*   FlowSpec  the device flow alone, one action per loop iteration of     *)
(*             wait_for_github_auth, with the sleeps and answers recorded. *)
(***************************************************************************)
EXTENDS Integers, Sequences, FiniteSets, TLC

VARIABLES
    config,     \* Config._config: the in-memory dict
    disk,       \* ~/.candy-lfs/config.yaml: [exists, doc]
    creds,      \* what the git credential helper holds
    env,        \* CANDY_LFS_LFS_ENDPOINT of the process environment
    last,       \* the last command: what ran, on which tenant, how it ended
    device_response,  \* device flow: the handshake login got
    pc,         \* device flow: Requested, Pending, Authorized, Failed
    interval,   \* device flow: the local `interval` of wait_for_github_auth
    sleeps,     \* device flow: the arguments of time.sleep, in order
    answers,    \* device flow: the provider's answers to the polls, in order
    result      \* device flow: what wait_for_github_auth returned or raised

vars == <<config, disk, creds, env, last,
          device_response, pc, interval, sleeps, answers, result>>
sessionVars == <<config, disk, creds, env, last>>
flowVars == <<device_response, pc, interval, sleeps, answers, result>>

(***************************************************************************)
(* Bounds and the small input sets.                                        *)
(***************************************************************************)
MaxPolls == 3           \* non-terminal answers a provider gives in one flow

None == "None"          \* Python's None
Tenants == {"acme", "beta"}
Tokens == {"tok_1", "tok_2"}
ApiUrl == "https://api.example"
LfsUrl == "https://lfs.example/api/"
Intervals == {1, 5}     \* the `interval` a handshake can carry

Empty == [k \in {} |-> None]                     \* {}
Get(d, k, default) == IF k \in DOMAIN d THEN d[k] ELSE default   \* dict.get
Put(d, k, v) == [x \in DOMAIN d \cup {k} |-> IF x = k THEN v ELSE d[x]]

(***************************************************************************)
(* JSON values as the code sees them after response.json().                *)
(***************************************************************************)
JObj(f) == [kind |-> "object", fields |-> f, items |-> <<>>, str |-> ""]
JArr(s) == [kind |-> "array", fields |-> Empty, items |-> s, str |-> ""]
JStr(s) == [kind |-> "string", fields |-> Empty, items |-> <<>>, str |-> s]
JNull == [kind |-> "null", fields |-> Empty, items |-> <<>>, str |-> ""]
NotJSON == [kind |-> "invalid", fields |-> Empty, items |-> <<>>, str |-> ""]

\* Python truthiness of a parsed JSON value
Truthy(v) ==
    CASE v.kind = "object" -> DOMAIN v.fields # {}
      [] v.kind = "array" -> v.items # <<>>
      [] v.kind = "string" -> v.str # ""
      [] OTHER -> FALSE

\* An HTTP response: status_code, .text, and what .json() parses (NotJSON: it raises)
Response(status, text, json) == [net |-> FALSE, status |-> status, text |-> text, json |-> json]
\* requests.RequestException: no response was obtained
NetworkFailure == [net |-> TRUE, status |-> 0, text |-> "connection refused", json |-> NotJSON]

(***************************************************************************)
(* api.py                                                                  *)
(***************************************************************************)
SlowDownIncrement == 5

\* APIError.__init__: details or {}
APIError(status_code, message, details) ==
    [exc |-> "APIError", status_code |-> status_code, message |-> message,
     details |-> IF Truthy(details) THEN details ELSE JObj(Empty)]

\* an exception that is no APIError (nothing in api.py or cli.py catches it)
OtherError(name) ==
    [exc |-> name, status_code |-> 0, message |-> "", details |-> JObj(Empty)]

NoError == OtherError("")
Return(v) == [t |-> "return", value |-> v, err |-> NoError]
Raise(e) == [t |-> "raise", value |-> JNull, err |-> e]

\* ", ".join(str(d) for d in details if d)
RECURSIVE JoinTruthy(_)
JoinTruthy(items) ==
    IF items = <<>> THEN ""
    ELSE LET rest == JoinTruthy(Tail(items))
         IN IF Head(items) = "" THEN rest
            ELSE IF rest = "" THEN Head(items)
            ELSE Head(items) \o ", " \o rest

\* _request, lines 39-55: the message of an error response.  A parsed body
\* that is no dict makes `in` or `.get` raise inside the try (TypeError,
\* AttributeError), as an unparseable body makes response.json() raise:
\* line 54 catches all of them and the message is the raw text.
ErrorMessage(response) ==
    LET f == response.json.fields
    IN IF response.json.kind # "object" THEN response.text
       ELSE IF "error" \in DOMAIN f /\ "error_description" \in DOMAIN f
            THEN f["error_description"]
       ELSE IF "error" \in DOMAIN f THEN f["error"]
       ELSE LET message == Get(f, "message", response.text)
                details_str == IF "details" \in DOMAIN f
                               THEN JoinTruthy(f["details"]) ELSE ""
            IN IF details_str # "" THEN message \o ": " \o details_str
               ELSE message

\* _request, line 56: error_data is a local once response.json() returned
ErrorData(response) ==
    IF response.json.kind = "invalid" THEN JNull ELSE response.json

\* a _request whose parse of the error body has no `except Exception`
_request_unguarded(response) ==
    IF response.net
    THEN Raise(APIError(0, "Network error: " \o response.text, JNull))
    ELSE IF response.status = 204 THEN Return(JNull)
    ELSE IF response.status >= 400
    THEN IF response.json.kind = "invalid"
         THEN Raise(OtherError("JSONDecodeError"))
         ELSE IF response.json.kind # "object"
         THEN Raise(OtherError("AttributeError"))
         ELSE Raise(APIError(response.status, ErrorMessage(response),
                             ErrorData(response)))
    ELSE Return(response.json)

\* APIClient._request on the transport's outcome
_request(response) ==
    IF response.net
    THEN Raise(APIError(0, "Network error: " \o response.text, JNull))
    ELSE IF response.status = 204 THEN Return(JNull)
    ELSE IF response.status >= 400
    THEN Raise(APIError(response.status, ErrorMessage(response), ErrorData(response)))
    ELSE Return(response.json)

\* a loop that backs off on authorization_pending as it does on slow_down
PollStep_pending_backs_off(response, iv) ==
    LET out == _request(response)
        stop == [t |-> out.t, value |-> out.value, err |-> out.err,
                 interval |-> iv, slept |-> 0]
    IN IF out.t = "raise" /\ out.err.status_code = 400
          /\ out.err.details.kind = "object"
          /\ Get(out.err.details.fields, "error", "")
                \in {"authorization_pending", "slow_down"}
       THEN [stop EXCEPT !.t = "sleep", !.err = NoError,
                         !.interval = iv + SlowDownIncrement,
                         !.slept = iv + SlowDownIncrement]
       ELSE stop

\* a loop that on slow_down sleeps the old interval and grows it afterwards
PollStep_sleeps_then_grows(response, iv) ==
    LET out == _request(response)
        stop == [t |-> out.t, value |-> out.value, err |-> out.err,
                 interval |-> iv, slept |-> 0]
        error == Get(out.err.details.fields, "error", "")
    IN IF out.t = "raise" /\ out.err.status_code = 400
          /\ out.err.details.kind = "object"
          /\ error \in {"authorization_pending", "slow_down"}
       THEN [stop EXCEPT !.t = "sleep", !.err = NoError,
                         !.interval = IF error = "slow_down"
                                      THEN iv + SlowDownIncrement ELSE iv,
                         !.slept = iv]
       ELSE stop

\* a loop that doubles the interval on slow_down
PollStep_doubles_on_slow_down(response, iv) ==
    LET out == _request(response)
        stop == [t |-> out.t, value |-> out.value, err |-> out.err,
                 interval |-> iv, slept |-> 0]
        error == Get(out.err.details.fields, "error", "")
    IN IF out.t = "raise" /\ out.err.status_code = 400
          /\ out.err.details.kind = "object"
          /\ error \in {"authorization_pending", "slow_down"}
       THEN LET grown == IF error = "slow_down" THEN iv + iv ELSE iv
            IN [stop EXCEPT !.t = "sleep", !.err = NoError,
                            !.interval = grown, !.slept = grown]
       ELSE stop

\* One pass of the loop of wait_for_github_auth with the local `interval` = iv:
\* what the pass does (return, raise, or sleep and go round again), the
\* interval after it and the time slept.
PollStep(response, iv) ==
    LET out == _request(response)
        e == out.err
        stop == [t |-> out.t, value |-> out.value, err |-> out.err,
                 interval |-> iv, slept |-> 0]
    IN IF out.t = "return" THEN stop
       ELSE IF e.status_code = 400
       THEN IF e.details.kind # "object"
            THEN [stop EXCEPT !.err = OtherError("AttributeError")]
            ELSE LET error == Get(e.details.fields, "error", "")
                 IN IF error = "authorization_pending"
                    THEN [stop EXCEPT !.t = "sleep", !.err = NoError, !.slept = iv]
                    ELSE IF error = "slow_down"
                    THEN [stop EXCEPT !.t = "sleep", !.err = NoError,
                                      !.interval = iv + SlowDownIncrement,
                                      !.slept = iv + SlowDownIncrement]
                    ELSE stop
       ELSE stop

\* APIClient.revoke_token on the transport's outcome: None on a 204 and on
\* any other status below 400, an APIError otherwise
revoke_token(response) ==
    IF response.net
    THEN Raise(APIError(0, "Network error: " \o response.text, JNull))
    ELSE IF response.status >= 400 /\ response.status # 204
    THEN Raise(APIError(response.status,
                        IF response.json.kind = "object"
                        THEN Get(response.json.fields, "error_description",
                                 Get(response.json.fields, "error", "unknown_error"))
                        ELSE response.text,
                        ErrorData(response)))
    ELSE Return(JNull)

\* wait_for_github_auth against a provider that answers the polls with
\* `script`, whose last answer ends the loop: what it returns or raises
RECURSIVE wait_for_github_auth(_, _)
wait_for_github_auth(script, iv) ==
    LET step == PollStep(Head(script), iv)
    IN IF step.t = "sleep" /\ Len(script) > 1
       THEN wait_for_github_auth(Tail(script), step.interval)
       ELSE [t |-> step.t, value |-> step.value, err |-> step.err]

(***************************************************************************)
(* The provider: what it can answer to POST /auth/github/device and to     *)
(* POST /auth/github/token.                                                *)
(***************************************************************************)
DeviceResponse(iv) ==
    Response(200, "{device_code ...}",
             JObj([k \in {"device_code", "user_code", "verification_uri", "interval"} |->
                     CASE k = "device_code" -> "D1"
                       [] k = "user_code" -> "ABCD-1234"
                       [] k = "verification_uri" -> "https://github.com/login/device"
                       [] k = "interval" -> iv]))

TokenPayload(token, scoped) ==
    JObj([k \in {"token", "github_user", "permission"}
               \cup (IF scoped THEN {"repo_names"} ELSE {}) |->
            CASE k = "token" -> token
              [] k = "github_user" -> "alice"
              [] k = "permission" -> "admin"
              [] k = "repo_names" -> <<"r1", "r2">>])

TokenResponse(token, scoped) == Response(200, "{token ...}", TokenPayload(token, scoped))

PendingBody == JObj([k \in {"error"} |-> "authorization_pending"])
SlowDownBody == JObj([k \in {"error"} |-> "slow_down"])
PendingAnswer == Response(400, "{error: authorization_pending}", PendingBody)
SlowDownAnswer == Response(400, "{error: slow_down}", SlowDownBody)

\* error bodies: text and parsed value
ErrorBodies ==
    { <<"{error: authorization_pending}", PendingBody>>,
      <<"{error: slow_down}", SlowDownBody>>,
      <<"{error: access_denied, error_description: denied}",
        JObj([k \in {"error", "error_description"} |->
                IF k = "error" THEN "access_denied" ELSE "denied"])>>,
      <<"{error: expired_token}", JObj([k \in {"error"} |-> "expired_token"])>>,
      <<"{message: bad, details: [d1, '', d2]}",
        JObj([k \in {"message", "details"} |->
                IF k = "message" THEN "bad" ELSE <<"d1", "", "d2">>])>>,
      <<"{}", JObj(Empty)>>,
      <<"[authorization_pending]", JArr(<<"authorization_pending">>)>>,
      <<"[]", JArr(<<>>)>>,
      <<"'slow_down'", JStr("slow_down")>>,
      <<"null", JNull>>,
      <<"<html>Bad Gateway</html>", NotJSON>>,
      <<"", NotJSON>> }

ErrorStatuses == {400, 401, 500}
ErrorResponses == {Response(st, b[1], b[2]) : st \in ErrorStatuses, b \in ErrorBodies}

HandshakeAnswers ==
    {DeviceResponse(iv) : iv \in Intervals} \cup ErrorResponses
        \cup {NetworkFailure, Response(204, "", NotJSON)}

PollAnswers ==
    {TokenResponse(tok, sc) : tok \in Tokens, sc \in BOOLEAN} \cup ErrorResponses
        \cup {NetworkFailure, Response(204, "", NotJSON)}

\* the answers after which wait_for_github_auth polls again
NonTerminal == {a \in PollAnswers : PollStep(a, 0).t = "sleep"}
Terminal == PollAnswers \ NonTerminal

\* providers that end the flow after at most MaxPolls non-terminal answers
Scripts ==
    {pre \o <<a>> : pre \in UNION {[1..n -> NonTerminal] : n \in 0..MaxPolls},
                    a \in Terminal}

\* everything wait_for_github_auth can return or raise to login
FlowResults == [iv \in Intervals |-> {wait_for_github_auth(sc, iv) : sc \in Scripts}]

(***************************************************************************)
(* config.py: the session file                                             *)
(***************************************************************************)
DEFAULT_API_ENDPOINT == ""                \* CANDY_LFS_API_ENDPOINT unset
DEFAULT_LFS_ENDPOINT == env               \* CANDY_LFS_LFS_ENDPOINT

\* `not x` for an Optional[str]
Falsy(x) == x \in {None, ""}

\* yaml.dump writes the mapping's keys in sorted order; the document is the
\* sequence of its (key, value) lines
KeyOrder == <<"api_endpoint", "current_tenant", "lfs_endpoint", "tenants">>
yaml_dump(c) ==
    LET keys == SelectSeq(KeyOrder, LAMBDA k : k \in DOMAIN c)
    IN [i \in 1..Len(keys) |-> <<keys[i], c[keys[i]]>>]
\* yaml.safe_load(f) or {}: the mapping the document's lines spell
yaml_safe_load(doc) ==
    [k \in {doc[i][1] : i \in 1..Len(doc)} |->
        doc[CHOOSE i \in 1..Len(doc) : doc[i][1] = k][2]]

_load_config(d) ==
    IF d.exists
    THEN yaml_safe_load(d.doc)
    ELSE [k \in {"api_endpoint", "current_tenant"} |->
            IF k = "api_endpoint" THEN DEFAULT_API_ENDPOINT ELSE None]

\* a save that leaves the tenant list out of the file
_save_config_without_tenants(c) ==
    [exists |-> TRUE, doc |-> yaml_dump([k \in DOMAIN c \ {"tenants"} |-> c[k]])]

_save_config(c) == [exists |-> TRUE, doc |-> yaml_dump(c)]

api_endpoint(c) == Get(c, "api_endpoint", "")
lfs_endpoint(c) == Get(c, "lfs_endpoint", DEFAULT_LFS_ENDPOINT)
current_tenant(c) == Get(c, "current_tenant", None)
get_tenant_list(c) == Get(c, "tenants", <<>>)

\* the setters: assign, then _save_config (the caller stores both)
set_api_endpoint(c, value) == Put(c, "api_endpoint", value)
set_current_tenant(c, value) == Put(c, "current_tenant", value)

TenantIds(tenants) == {tenants[i].tenant_id : i \in 1..Len(tenants)}

\* add_tenant without the search: every call appends
add_tenant_list_appends(tenants, tenant_id, name, role) ==
    Append(tenants, [tenant_id |-> tenant_id, name |-> name, role |-> role])

\* add_tenant, lines 135-142: the for/else over the list
add_tenant_list(tenants, tenant_id, name, role) ==
    IF tenant_id \in TenantIds(tenants)
    THEN LET i == CHOOSE j \in 1..Len(tenants) :
                    /\ tenants[j].tenant_id = tenant_id
                    /\ \A k \in 1..(j - 1) : tenants[k].tenant_id # tenant_id
         IN [tenants EXCEPT ![i].name = name, ![i].role = role]
    ELSE Append(tenants, [tenant_id |-> tenant_id, name |-> name, role |-> role])

\* Config.add_tenant: the dict after it (line 144 saves it)
add_tenant(c, tenant_id, name, role) ==
    Put(c, "tenants", add_tenant_list(get_tenant_list(c), tenant_id, name, role))

\* Config.remove_tenant, lines 147-148: the dict after it (line 149 saves it)
remove_tenant(c, tenant_id) ==
    Put(c, "tenants",
        SelectSeq(get_tenant_list(c), LAMBDA t : t.tenant_id # tenant_id))

(***************************************************************************)
(* config.py: the secret store, a git credential helper                    *)
(***************************************************************************)
\* urlparse(...).netloc and .path of the endpoints in use
urlparse(url) ==
    CASE url = LfsUrl -> [netloc |-> "lfs.example", path |-> "/api/"]
      [] url = ApiUrl -> [netloc |-> "api.example", path |-> ""]
      [] OTHER -> [netloc |-> "", path |-> ""]
\* path.strip('/')
strip_slashes(path) ==
    CASE path = "/api/" -> "api"
      [] OTHER -> path

_get_git_credential_info(c, tenant_id) ==
    IF lfs_endpoint(c) # ""
    THEN LET parsed == urlparse(lfs_endpoint(c))
             base_path == strip_slashes(parsed.path)
         IN [host |-> parsed.netloc,
             path |-> IF base_path # "" THEN base_path \o "/" \o tenant_id
                      ELSE tenant_id]
    ELSE [host |-> "candy-lfs.local", path |-> tenant_id]

\* how one subprocess.run of `git credential ...` can go: exit 0, a non-zero
\* exit, an exception (the 5 s timeout stands for all of them)
HelperOutcomes == {"ok", "nonzero", "TimeoutExpired"}
HelperOk(h) == h = "ok"
HelperFailures == HelperOutcomes \ {"ok"}

\* helpers whose try has no `except Exception: pass`
helper_exception_propagates(h) ==
    IF h = "TimeoutExpired" THEN h ELSE ""

\* _git_credential_get / _store / _erase, lines 91-92, 104-105, 116-117: the
\* exception that leaves them when subprocess.run went as h ("": none)
helper_exception(h) == ""

Matches(cr, host, path, username) ==
    cr.host = host /\ cr.path = path /\ cr.username = username

\* `git credential fill`: the password line, when the helper runs and has one
_git_credential_get(store, host, path, username, helper_ok) ==
    IF helper_ok /\ \E cr \in store : Matches(cr, host, path, username)
    THEN (CHOOSE cr \in store : Matches(cr, host, path, username)).password
    ELSE None

\* an approve that leaves an entry already held for the key as it is
_git_credential_store_keeps_first(store, host, path, username, password, helper_ok) ==
    IF helper_ok /\ ~\E cr \in store : Matches(cr, host, path, username)
    THEN store \cup {[host |-> host, path |-> path, username |-> username,
                      password |-> password]}
    ELSE store

\* `git credential approve`: the helper's store afterwards
_git_credential_store(store, host, path, username, password, helper_ok) ==
    IF helper_ok
    THEN {cr \in store : ~Matches(cr, host, path, username)}
            \cup {[host |-> host, path |-> path, username |-> username,
                   password |-> password]}
    ELSE store

\* a reject that drops every entry of the host
_git_credential_erase_by_host(store, host, path, username, helper_ok) ==
    IF helper_ok
    THEN {cr \in store : cr.host # host}
    ELSE store

\* `git credential reject`: the helper's store afterwards
_git_credential_erase(store, host, path, username, helper_ok) ==
    IF helper_ok
    THEN {cr \in store : ~Matches(cr, host, path, username)}
    ELSE store

get_github_token(c, store, tenant_id, helper_ok) ==
    LET info == _get_git_credential_info(c, tenant_id)
    IN _git_credential_get(store, info.host, info.path, tenant_id, helper_ok)

set_github_token(c, store, tenant_id, token, helper_ok) ==
    LET info == _get_git_credential_info(c, tenant_id)
    IN _git_credential_store(store, info.host, info.path, tenant_id, token, helper_ok)

delete_github_token(c, store, tenant_id, helper_ok) ==
    LET info == _get_git_credential_info(c, tenant_id)
    IN _git_credential_erase(store, info.host, info.path, tenant_id, helper_ok)

\* the attributes class Config defines (cli.py also asks for get_token and
\* delete_token, which it does not)
ConfigAttributes ==
    {"api_endpoint", "lfs_endpoint", "current_tenant", "get_github_token",
     "set_github_token", "delete_github_token", "get_tenant_list",
     "add_tenant", "remove_tenant"}

(***************************************************************************)
(* The state after construction: no session file, nothing stored.          *)
(***************************************************************************)
\* what `last` records of a command: its name, the tenant it resolved, how it
\* ended, the branch it took, whether the credential helper worked when it was
\* run and how its subprocess went, the token payload a login received, the tokens the command asked
\* the server to revoke (APIClient.revoke_token has no caller in cli.py: none)
\* and the token of the APIClient that get_client returned
Done(op, tenant, outcome, branch) ==
    [op |-> op, tenant |-> tenant, outcome |-> outcome, branch |-> branch,
     helper |-> TRUE, helper_run |-> "", payload |-> JNull, revoked |-> <<>>,
     client |-> None]

Init ==
    /\ env \in {"", LfsUrl}
    /\ disk = [exists |-> FALSE, doc |-> <<>>]
    /\ config = _load_config(disk)
    /\ creds = {}
    /\ last = Done("init", None, "ok", "")
    /\ device_response = JNull
    /\ pc = "Requested"
    /\ interval = 0
    /\ sleeps = <<>>
    /\ answers = <<>>
    /\ result = Return(JNull)

(***************************************************************************)
(* cli.py: the commands.  A command that raises click.ClickException ends  *)
(* "UsageError"; one that catches an APIError and calls sys.exit(1) ends   *)
(* "exit1"; any other exception leaves the process as itself.              *)
(***************************************************************************)
\* config set-endpoint <url>
set_endpoint(url) ==
    /\ config' = set_api_endpoint(config, url)
    /\ disk' = _save_config(config')
    /\ last' = Done("set_endpoint", None, "ok", "")
    /\ UNCHANGED <<creds, env, flowVars>>

\* login that selects the tenant whatever was selected before
login_selects_always(c) == TRUE

\* login, line 99: `if not config.current_tenant`
login_selects(c) == Falsy(current_tenant(c))

\* login, lines 98-100: the dict after the tenant is upserted and selected
login_config(c, tenant_id) ==
    LET c2 == add_tenant(c, tenant_id, tenant_id, "member")
    IN IF login_selects(c2) THEN set_current_tenant(c2, tenant_id) ELSE c2

\* login, lines 94-97: the secret store after the token of the payload is kept
login_store(c, store, tenant_id, payload, helper_ok) ==
    set_github_token(c, store, tenant_id, payload.fields["token"], helper_ok)

\* what github_device_code can return or raise to login
HandshakeResults == {_request(h) : h \in HandshakeAnswers}
HandshakeRaises == \E h \in HandshakeResults : h.t = "raise"
HandshakeReturnsNone == \E h \in HandshakeResults : h.t = "return" /\ h.value.kind # "object"
Handshakes == {h.value : h \in {x \in HandshakeResults :
                                  x.t = "return" /\ x.value.kind = "object"}}

\* login, lines 103-109 and the uncaught rest: how a login ends that caught
\* or let through the exception e
LoginFailure(e) == IF e.exc = "APIError" THEN "exit1" ELSE e.exc

\* what wait_for_github_auth can hand to login, by the handshake's interval:
\* the ways it fails, whether it can return None, the payloads it returns
PollFailures == [iv \in Intervals |->
                   {LoginFailure(r.err) : r \in {x \in FlowResults[iv] : x.t = "raise"}}]
PollReturnsNone == [iv \in Intervals |->
                      \E r \in FlowResults[iv] : r.t = "return" /\ r.value.kind # "object"]
PollPayloads == [iv \in Intervals |->
                   {r.value : r \in {x \in FlowResults[iv] :
                                        x.t = "return" /\ x.value.kind = "object"}}]

\* a login that records the tenant before the handshake, so that a failed
\* handshake or poll leaves the record behind
login_registers_first(tenant_id) ==
    /\ UNCHANGED <<env, flowVars>>
    /\ IF Falsy(api_endpoint(config))
       THEN /\ last' = Done("login", tenant_id, "UsageError", "no_endpoint")
            /\ UNCHANGED <<config, disk, creds>>
       ELSE /\ config' = login_config(config, tenant_id)
            /\ disk' = _save_config(config')
            /\ \/ /\ HandshakeRaises
                  /\ last' = Done("login", tenant_id, "exit1", "handshake")
                  /\ UNCHANGED creds
               \/ \E handshake \in Handshakes :
                    LET iv == handshake.fields["interval"]
                    IN \/ \E outcome \in PollFailures[iv] :
                            /\ last' = Done("login", tenant_id, outcome, "poll")
                            /\ UNCHANGED creds
                       \/ \E token_response \in PollPayloads[iv], h \in HelperOutcomes :
                            /\ creds' = login_store(config, creds, tenant_id,
                                                    token_response, HelperOk(h))
                            /\ last' = [Done("login", tenant_id, "ok",
                                             IF login_selects(config)
                                             THEN "select" ELSE "keep")
                                        EXCEPT !.helper = HelperOk(h),
                                               !.helper_run = h,
                                               !.payload = token_response]

login(tenant_id) ==
    /\ UNCHANGED <<env, flowVars>>
    /\ IF Falsy(api_endpoint(config))
       THEN /\ last' = Done("login", tenant_id, "UsageError", "no_endpoint")
            /\ UNCHANGED <<config, disk, creds>>
       ELSE \/ /\ HandshakeRaises
               /\ last' = Done("login", tenant_id, "exit1", "handshake")
               /\ UNCHANGED <<config, disk, creds>>
            \/ \* a 204: device_response is None, line 85 subscripts it
               /\ HandshakeReturnsNone
               /\ last' = Done("login", tenant_id, "TypeError", "handshake")
               /\ UNCHANGED <<config, disk, creds>>
            \/ \E handshake \in Handshakes :
                 LET iv == handshake.fields["interval"]
                 IN \/ \E outcome \in PollFailures[iv] :
                         /\ last' = Done("login", tenant_id, outcome, "poll")
                         /\ UNCHANGED <<config, disk, creds>>
                    \/ \* a 204: token_response is None, line 94 subscripts it
                       /\ PollReturnsNone[iv]
                       /\ last' = Done("login", tenant_id, "TypeError", "poll")
                       /\ UNCHANGED <<config, disk, creds>>
                    \/ \E token_response \in PollPayloads[iv], h \in HelperOutcomes :
                         IF helper_exception(h) # ""
                         THEN \* line 97 raises
                              /\ last' = [Done("login", tenant_id,
                                               helper_exception(h), "store")
                                          EXCEPT !.helper = FALSE, !.helper_run = h]
                              /\ UNCHANGED <<config, disk, creds>>
                         ELSE /\ creds' = login_store(config, creds, tenant_id,
                                                      token_response, HelperOk(h))
                              /\ config' = login_config(config, tenant_id)
                              /\ disk' = _save_config(config')
                              /\ last' = [Done("login", tenant_id, "ok",
                                               IF login_selects(config)
                                               THEN "select" ELSE "keep")
                                          EXCEPT !.helper = HelperOk(h),
                                                 !.helper_run = h,
                                                 !.payload = token_response]

\* logout, lines 121-122
logout_config(c, tenant_id) ==
    IF current_tenant(c) = tenant_id THEN set_current_tenant(c, None) ELSE c

logout(arg) ==
    LET tenant_id == IF Falsy(arg) THEN current_tenant(config) ELSE arg
    IN /\ UNCHANGED <<env, flowVars>>
       /\ IF Falsy(tenant_id)
          THEN /\ last' = Done("logout", None, "UsageError", "no_tenant")
               /\ UNCHANGED <<config, disk, creds>>
          ELSE \E h \in HelperOutcomes :
                 IF helper_exception(h) # ""
                 THEN \* line 119 raises
                      /\ last' = [Done("logout", tenant_id, helper_exception(h),
                                       "delete_github_token")
                                  EXCEPT !.helper = FALSE, !.helper_run = h]
                      /\ UNCHANGED <<config, disk, creds>>
                 ELSE /\ creds' = delete_github_token(config, creds, tenant_id,
                                                      HelperOk(h))
                      /\ IF "delete_token" \in ConfigAttributes
                         THEN /\ config' = logout_config(config, tenant_id)
                              /\ disk' = IF config' # config
                                         THEN _save_config(config') ELSE disk
                              /\ last' = [Done("logout", tenant_id, "ok", "")
                                          EXCEPT !.helper = HelperOk(h),
                                                 !.helper_run = h]
                         ELSE \* line 120: Config has no attribute delete_token
                              /\ last' = [Done("logout", tenant_id, "AttributeError",
                                               "delete_token")
                                          EXCEPT !.helper = HelperOk(h),
                                                 !.helper_run = h]
                              /\ UNCHANGED <<config, disk>>

\* get_client, the accessor of every authorized command (tenant info, repo,
\* token, usage): the tenant it resolves and how it ends
get_client(arg) ==
    LET tenant_id == IF arg = None THEN current_tenant(config) ELSE arg
        how == IF arg = None THEN "current" ELSE "explicit"
    IN /\ UNCHANGED <<config, disk, creds, env, flowVars>>
       /\ IF Falsy(api_endpoint(config))
          THEN last' = Done("get_client", arg, "UsageError", "no_endpoint")
          ELSE IF arg = None /\ Falsy(tenant_id)
          THEN last' = Done("get_client", None, "UsageError", "no_tenant")
          ELSE IF "get_token" \in ConfigAttributes
          THEN \E h \in HelperOutcomes :
                 LET token == get_github_token(config, creds, tenant_id, HelperOk(h))
                 IN last' = IF helper_exception(h) # ""
                            THEN [Done("get_client", tenant_id, helper_exception(h), how)
                                  EXCEPT !.helper = FALSE, !.helper_run = h]
                            ELSE IF Falsy(token)
                            THEN [Done("get_client", tenant_id, "UsageError", "no_token")
                                  EXCEPT !.helper = HelperOk(h), !.helper_run = h]
                            ELSE [Done("get_client", tenant_id, "ok", how)
                                  EXCEPT !.helper = HelperOk(h), !.helper_run = h,
                                         !.client = token]
          ELSE \* line 30: Config has no attribute get_token
               last' = Done("get_client", tenant_id, "AttributeError", how)

\* a select that takes any id for known
select_tenant_known_always(c, tenant_id) == TRUE

\* select_tenant, line 152: any(t["tenant_id"] == tenant_id for t in tenants)
select_tenant_known(c, tenant_id) == tenant_id \in TenantIds(get_tenant_list(c))

\* tenant select <tenant-id>
select_tenant(tenant_id) ==
    /\ UNCHANGED <<creds, env, flowVars>>
    /\ IF ~select_tenant_known(config, tenant_id)
       THEN /\ last' = Done("select_tenant", tenant_id, "UsageError", "unknown")
            /\ UNCHANGED <<config, disk>>
       ELSE /\ config' = set_current_tenant(config, tenant_id)
            /\ disk' = _save_config(config')
            /\ last' = Done("select_tenant", tenant_id, "ok", "")

(***************************************************************************)
(* config.py: the two Config methods that change the tenant list           *)
(***************************************************************************)
Config_add_tenant(tenant_id, name, role) ==
    /\ config' = add_tenant(config, tenant_id, name, role)
    /\ disk' = _save_config(config')
    /\ last' = Done("add_tenant", tenant_id, "ok",
                    IF tenant_id \in TenantIds(get_tenant_list(config))
                    THEN "update" ELSE "append")
    /\ UNCHANGED <<creds, env, flowVars>>

Config_remove_tenant(tenant_id) ==
    /\ config' = remove_tenant(config, tenant_id)
    /\ disk' = _save_config(config')
    /\ \E h \in HelperOutcomes :
         IF helper_exception(h) # ""
         THEN \* line 150 raises, after the save of line 149
              /\ last' = [Done("remove_tenant", tenant_id, helper_exception(h), "")
                          EXCEPT !.helper = FALSE, !.helper_run = h]
              /\ UNCHANGED creds
         ELSE /\ creds' = delete_github_token(config', creds, tenant_id, HelperOk(h))
              /\ last' = [Done("remove_tenant", tenant_id, "ok", "")
                          EXCEPT !.helper = HelperOk(h), !.helper_run = h]
    /\ UNCHANGED <<env, flowVars>>

Next ==
    \/ \E url \in {"", ApiUrl} : set_endpoint(url)
    \/ \E t \in Tenants : login(t)
    \/ \E t \in Tenants \cup {None} : logout(t)
    \/ \E t \in Tenants : select_tenant(t)
    \/ \E t \in Tenants \cup {None} : get_client(t)
    \/ \E t \in Tenants : Config_add_tenant(t, t, "member")
    \/ \E t \in Tenants : Config_add_tenant(t, "Org", "admin")
    \/ \E t \in Tenants : Config_remove_tenant(t)

Spec == Init /\ [][Next]_vars

(***************************************************************************)
(* The device flow of one login, step by step.                             *)
(***************************************************************************)
\* login, lines 84-92: the handshake
github_device_code ==
    /\ pc = "Requested"
    /\ \E h \in HandshakeAnswers :
         LET response == _request(h)
         IN IF response.t = "return" /\ response.value.kind = "object"
            THEN /\ pc' = "Pending"
                 /\ device_response' = response.value
                 /\ interval' = response.value.fields["interval"]
                 /\ UNCHANGED result
            ELSE /\ pc' = "Failed"
                 /\ result' = IF response.t = "raise" THEN response
                              ELSE Raise(OtherError("TypeError"))
                 /\ UNCHANGED <<device_response, interval>>
    /\ UNCHANGED <<sleeps, answers, sessionVars>>

\* a loop that gives up at its third authorization_pending or slow_down
Poll_with_attempt_limit ==
    /\ pc = "Pending"
    /\ \E a \in PollAnswers :
         LET step == PollStep(a, interval)
             gives_up == step.t = "sleep" /\ Len(sleeps) >= 2
         IN /\ answers' = Append(answers, a)
            /\ interval' = step.interval
            /\ IF step.t = "sleep" /\ ~gives_up
               THEN /\ sleeps' = Append(sleeps, step.slept)
                    /\ UNCHANGED <<pc, result>>
               ELSE /\ pc' = IF step.t = "return" THEN "Authorized" ELSE "Failed"
                    /\ result' = IF gives_up THEN Raise(OtherError("TimeoutError"))
                                 ELSE [t |-> step.t, value |-> step.value,
                                       err |-> step.err]
                    /\ UNCHANGED sleeps
    /\ UNCHANGED <<device_response, sessionVars>>

\* wait_for_github_auth, lines 69-82: one pass of the loop
Poll ==
    /\ pc = "Pending"
    /\ \E a \in PollAnswers :
         LET step == PollStep(a, interval)
         IN /\ step.t = "sleep" => Len(sleeps) < MaxPolls
            /\ answers' = Append(answers, a)
            /\ interval' = step.interval
            /\ IF step.t = "sleep"
               THEN /\ sleeps' = Append(sleeps, step.slept)
                    /\ UNCHANGED <<pc, result>>
               ELSE /\ pc' = IF step.t = "return" THEN "Authorized" ELSE "Failed"
                    /\ result' = [t |-> step.t, value |-> step.value, err |-> step.err]
                    /\ UNCHANGED sleeps
    /\ UNCHANGED <<device_response, sessionVars>>

FlowNext == github_device_code \/ Poll

FlowSpec == Init /\ [][FlowNext]_vars

\* the flow of a process that keeps running: the handshake request and every
\* poll end (the session's requests carry timeout=30, a sleep returns), and
\* the provider gives a last answer after at most MaxPolls others
FlowLive == FlowSpec /\ WF_vars(github_device_code) /\ WF_vars(Poll)

(***************************************************************************)
(* The session claims, under Spec.                                         *)
(***************************************************************************)
tenants == get_tenant_list(config)
current == current_tenant(config)
LoginDone == last.op = "login" /\ last.outcome = "ok"

\* C1: in every reachable state current_tenant is none or the tenant_id of a
\* record of the tenant list.  (Violated: Config.remove_tenant leaves the
\* pointer on the removed tenant.)
C1_PointerNeverDangles ==
    current = None \/ current \in TenantIds(tenants)

\* C2: remove_tenant(t) sets current_tenant to none when it pointed at t and
\* leaves it as it was otherwise.  (Violated: remove_tenant never touches
\* current_tenant.)
C2_RemoveClearsPointer ==
    [][\A t \in Tenants :
         (last'.op = "remove_tenant" /\ last'.tenant = t) =>
            /\ current = t => current_tenant(config') = None
            /\ current # t => current_tenant(config') = current]_vars

\* the upsert of (t, name, role) seen from outside: before and after lists
Upserted(before, after, t, name, role) ==
    IF t \in TenantIds(before)
    THEN /\ Len(after) = Len(before)
         /\ \A i \in 1..Len(before) :
              IF before[i].tenant_id = t
              THEN after[i] = [tenant_id |-> t, name |-> name, role |-> role]
              ELSE after[i] = before[i]
    ELSE after = Append(before, [tenant_id |-> t, name |-> name, role |-> role])

\* C3: the tenant list never holds two records with one tenant_id; add_tenant
\* (called directly or by a successful login) on a known id rewrites that
\* record's name and role in place and appends nothing, and appends exactly
\* one record on an unknown id.
C3_OneRecordPerTenant ==
    [][/\ Cardinality(TenantIds(get_tenant_list(config'))) = Len(get_tenant_list(config'))
       /\ \A t \in Tenants :
            /\ \A p \in {<<t, "member">>, <<"Org", "admin">>} :
                 (last'.op = "add_tenant" /\ Config_add_tenant(t, p[1], p[2])) =>
                    Upserted(tenants, get_tenant_list(config'), t, p[1], p[2])
            /\ (last'.op = "login" /\ last'.outcome = "ok" /\ last'.tenant = t) =>
                    Upserted(tenants, get_tenant_list(config'), t, t, "member")]_vars

\* C3 witness: add_tenant has rewritten a known tenant in a list of two
C3_Witness ==
    /\ last.op = "add_tenant" /\ last.branch = "update"
    /\ Len(tenants) = 2
    /\ \E i \in 1..2 : tenants[i] = [tenant_id |-> last.tenant, name |-> "Org",
                                     role |-> "admin"]

\* C10: a successful login(t) selects t when no tenant was selected, and
\* leaves current_tenant as it was when one was (t itself or another).
C10_LoginSelectsOnlyWhenNone ==
    [][\A t \in Tenants :
         (last'.op = "login" /\ last'.outcome = "ok" /\ last'.tenant = t) =>
            current_tenant(config') = IF current \in {None, ""} THEN t ELSE current]_vars

\* C10 witness: a login succeeded for a tenant other than the selected one
C10_Witness ==
    /\ LoginDone /\ last.branch = "keep"
    /\ current \in Tenants /\ current # last.tenant
    /\ last.tenant \in TenantIds(tenants)

(***************************************************************************)
(* The device-flow claims, under FlowSpec.                                 *)
(***************************************************************************)
initial == device_response.fields["interval"]
polls == Len(answers)
TokenResponses == {TokenResponse(tok, sc) : tok \in Tokens, sc \in BOOLEAN}
AllPending(n) == \A i \in 1..n : answers[i] = PendingAnswer

\* C4: while the provider answers authorization_pending the flow stays
\* Pending and has slept the initial interval once per answer; when a
\* success follows n such answers the flow is Authorized after n sleeps of
\* the initial interval and n+1 polls, and returns the success payload.
C4_PendingThenSuccess ==
    /\ (polls >= 1 /\ AllPending(polls)) =>
          /\ pc = "Pending"
          /\ sleeps = [i \in 1..polls |-> initial]
    /\ (polls >= 1 /\ AllPending(polls - 1) /\ answers[polls] \in TokenResponses) =>
          /\ pc = "Authorized"
          /\ sleeps = [i \in 1..(polls - 1) |-> initial]
          /\ result = Return(answers[polls].json)

\* C4 witness: three authorization_pending answers, then the token
C4_Witness ==
    /\ pc = "Authorized" /\ polls = 4 /\ AllPending(3)
    /\ answers[4] \in TokenResponses
    /\ Len(sleeps) = 3

SlowSlowPendingSuccess ==
    /\ polls = 4
    /\ answers[1] = SlowDownAnswer /\ answers[2] = SlowDownAnswer
    /\ answers[3] = PendingAnswer /\ answers[4] \in TokenResponses

\* C5 as stated: after slow_down, slow_down, authorization_pending, success
\* the three sleeps lasted initial, initial+5, initial+5.  (Violated: the
\* interval grows before the sleep that follows a slow_down.)
C5_SleepsAsStated ==
    SlowSlowPendingSuccess =>
        sleeps = <<initial, initial + 5, initial + 5>>

\* C5 amended: after slow_down, slow_down, authorization_pending, success the
\* flow is Authorized and the three sleeps lasted initial+5, initial+10,
\* initial+10.
C5_SleepsGrowBeforeSleeping ==
    SlowSlowPendingSuccess =>
        /\ pc = "Authorized"
        /\ sleeps = <<initial + 5, initial + 10, initial + 10>>

C5_Witness == SlowSlowPendingSuccess /\ pc = "Authorized" /\ Len(sleeps) = 3

IsSuccess(a) == ~a.net /\ a.status < 400
IsPendingSignal(a) ==
    /\ ~a.net /\ a.status = 400 /\ a.json.kind = "object"
    /\ Get(a.json.fields, "error", "") \in {"authorization_pending", "slow_down"}

\* C6: an answer that is neither a success nor a 400 authorization_pending
\* or slow_down is the last one polled: the flow is Failed, what is raised is
\* the APIError of that answer, and no sleep follows it.  (Violated: a 400
\* whose body parses to a non-empty list or string raises AttributeError.)
C6_OtherAnswersFail ==
    \A i \in 1..polls :
        (~IsSuccess(answers[i]) /\ ~IsPendingSignal(answers[i])) =>
            /\ i = polls
            /\ pc = "Failed"
            /\ Len(sleeps) = i - 1
            /\ result.t = "raise"
            /\ result.err.exc = "APIError"
            /\ result.err.status_code = answers[i].status

(***************************************************************************)
(* The login and logout claims, under Spec.                                *)
(***************************************************************************)
StoredToken(t) == get_github_token(config, creds, t, TRUE)

\* C7: a logout of tenant t, the first or a repeated one with no token left,
\* raises no error and leaves current_tenant different from t.  (Violated:
\* logout calls config.delete_token, which Config does not define.)
C7_LogoutIdempotent ==
    (last.op = "logout" /\ last.tenant \in Tenants) =>
        /\ last.outcome = "ok"
        /\ current # last.tenant

\* C8: when logout(t) is over, no secret is stored for t (the helper having
\* run) and current_tenant is not t.  (Violated: the AttributeError of
\* line 120 ends logout before the pointer is cleared.)
C8_LogoutClearsLocalState ==
    (last.op = "logout" /\ last.tenant \in Tenants) =>
        /\ last.helper => StoredToken(last.tenant) = None
        /\ current # last.tenant

\* C9: after a successful login(t), with the helper running, the store holds
\* the new token under one key of t per repo scope of the payload, or under
\* the unscoped key of t when the payload has no scope list, and t has a
\* tenant record.  (Violated: login ignores repo_names and stores the token
\* once, under the tenant's key.)
C9_LoginStoresPerScope ==
    (LoginDone /\ last.helper) =>
        LET t == last.tenant
            token == last.payload.fields["token"]
        IN /\ IF "repo_names" \in DOMAIN last.payload.fields
              THEN Cardinality({cr \in creds : cr.username = t /\ cr.password = token})
                     = Len(last.payload.fields["repo_names"])
              ELSE StoredToken(t) = token
           /\ t \in TenantIds(tenants)

\* C11: a successful login(t) whose payload carries a repo-scope list, made
\* while a token of t was stored, has asked the server to revoke that token
\* (before replacing it).  (Violated: login never calls revoke_token.)
C11_LoginRevokesPreviousToken ==
    [][\A t \in Tenants :
         (/\ last'.op = "login" /\ last'.outcome = "ok" /\ last'.tenant = t
          /\ "repo_names" \in DOMAIN last'.payload.fields
          /\ StoredToken(t) # None) =>
            last'.revoked = <<StoredToken(t)>>]_vars

\* C12: get_client ends in a usage error when the endpoint is empty, when no
\* tenant is given or selected, or when no token is stored for the tenant it
\* resolved (the argument, else current_tenant); otherwise it returns a
\* client carrying that tenant's stored token.  (Violated: get_client calls
\* config.get_token, which Config does not define.)
C12_ResolveToken ==
    last.op = "get_client" =>
        /\ last.branch = "current" => last.tenant = current
        /\ IF \/ Falsy(api_endpoint(config))
              \/ last.tenant = None
              \/ get_github_token(config, creds, last.tenant, last.helper) = None
           THEN last.outcome = "UsageError" /\ last.client = None
           ELSE last.outcome = "ok" /\ last.client = StoredToken(last.tenant)

\* C13: select_tenant(t) on an id with no tenant record ends in a usage
\* error and leaves the session as it was; on a known id it sets
\* current_tenant to t and changes nothing else.
C13_SelectKnownTenantOnly ==
    [][\A t \in Tenants :
         (last'.op = "select_tenant" /\ last'.tenant = t) =>
            /\ creds' = creds
            /\ IF t \in TenantIds(tenants)
               THEN /\ last'.outcome = "ok"
                    /\ config' = [config EXCEPT !["current_tenant"] = t]
               ELSE /\ last'.outcome = "UsageError"
                    /\ config' = config /\ disk' = disk]_vars

\* C13 witness: a select moved the pointer to the second of two known tenants
C13_Witness ==
    /\ last.op = "select_tenant" /\ last.outcome = "ok"
    /\ Len(tenants) = 2 /\ current = last.tenant /\ tenants[2].tenant_id = current

\* C15: no failure of the credential helper leaves the secret store as an
\* exception: a command whose helper call exited non-zero, timed out or found
\* no git ends as it does with a working helper (login completes, logout and
\* get_client end on their own errors only), and a get through a failed
\* helper is absent.
C15_HelperFailuresSwallowed ==
    /\ last.outcome \notin HelperFailures
    /\ (last.op \in {"login", "remove_tenant"} /\ last.helper_run # "") =>
          last.outcome = "ok"
    /\ \A t \in Tenants, h \in HelperFailures :
          get_github_token(config, creds, t, HelperOk(h)) = None

\* C15 witness: a login went through although the helper timed out; the
\* token was not stored
C15_Witness ==
    /\ LoginDone /\ last.helper_run = "TimeoutExpired"
    /\ StoredToken(last.tenant) # last.payload.fields["token"]

(***************************************************************************)
(* The secret store and the session file, under Spec.                      *)
(***************************************************************************)
\* the set of the login that just ended well for t, the delete of the logout
\* or remove_tenant that just ran for t
JustSet(t) == last'.op = "login" /\ last'.outcome = "ok" /\ last'.tenant = t
JustDeleted(t) == last'.op \in {"logout", "remove_tenant"} /\ last'.tenant = t
StoredToken_next(t) == get_github_token(config', creds', t, TRUE)

Mutated ==
    \/ last.op \in {"set_endpoint", "add_tenant", "remove_tenant"}
    \/ last.op \in {"login", "select_tenant"} /\ last.outcome = "ok"

\* C16: when a mutating accessor (set api_endpoint, set current_tenant,
\* add_tenant, remove_tenant) has returned, the session file exists and a
\* fresh load of it gives the record held in memory; the same holds of every
\* state, so the file never lacks the effect of an earlier call.
C16_WriteThrough ==
    /\ Mutated => disk.exists
    /\ _load_config(disk) = config

\* C16 witness: after a remove_tenant that left one tenant and a selected
\* tenant, the file on disk spells that record
C16_Witness ==
    /\ last.op = "remove_tenant" /\ disk.exists
    /\ Len(tenants) = 1 /\ current # None
    /\ yaml_safe_load(disk.doc)["tenants"] = tenants
    /\ yaml_safe_load(disk.doc)["current_tenant"] = current

Removed(t) == last'.op = "remove_tenant" /\ last'.tenant = t

C18_UnparseableBodyNormalized ==
    \A i \in 1..polls :
        LET a == answers[i]
            out == _request(a)
        IN (~a.net /\ a.status >= 400) =>
              /\ out.t = "raise"
              /\ out.err.exc = "APIError"
              /\ out.err.status_code = a.status
              /\ a.json.kind = "invalid" =>
                    /\ out.err.message = a.text
                    /\ out.err.details = JObj(Empty)
              /\ a.json.kind \notin {"object", "invalid"} =>
                    out.err.message = a.text
              /\ (a.status # 400 /\ i = polls) =>
                    /\ pc = "Failed"
                    /\ result = [t |-> "raise", value |-> JNull, err |-> out.err]

\* C18 witness: after two sleeps a poll is answered 500 with an HTML page, and
\* the flow has failed with that page as the message
C18_Witness ==
    /\ pc = "Failed" /\ polls = 3
    /\ answers[3].status = 500 /\ answers[3].json = NotJSON
    /\ answers[3].text = "<html>Bad Gateway</html>"
    /\ result.err.exc = "APIError"
    /\ result.err.message = "<html>Bad Gateway</html>"
    /\ result.err.details.kind = "object"

\* the slow_down answers among the first j
SlowDowns(j) == Cardinality({i \in 1..j : answers[i] = SlowDownAnswer})

\* C19: once the handshake has given the interval, the sleep after the j-th
\* non-terminal answer lasts initial + 5 * (the slow_down answers among the
\* first j); so an authorization_pending sleeps what the sleep before it
\* lasted, a slow_down 5 more, no sleep is shorter than the one before, and
\* the interval in use is that of the last sleep.
C19_IntervalArithmetic ==
    device_response.kind = "object" =>
        /\ \A j \in 1..Len(sleeps) :
              LET before == IF j = 1 THEN initial ELSE sleeps[j - 1]
              IN /\ sleeps[j] = initial + 5 * SlowDowns(j)
                 /\ answers[j] = PendingAnswer => sleeps[j] = before
                 /\ answers[j] = SlowDownAnswer => sleeps[j] = before + 5
                 /\ sleeps[j] >= before
        /\ interval = initial + 5 * SlowDowns(Len(sleeps))

\* C19 witness: slow_down, authorization_pending, slow_down from an initial
\* interval of 1: sleeps of 6, 6 and 11
C19_Witness ==
    /\ device_response.kind = "object" /\ initial = 1
    /\ polls >= 3
    /\ answers[1] = SlowDownAnswer /\ answers[2] = PendingAnswer
    /\ answers[3] = SlowDownAnswer
    /\ sleeps = <<6, 6, 11>> /\ interval = 11

Ended == pc \in {"Authorized", "Failed"}

\* C20: the loop has no attempt limit: an authorization_pending or slow_down
\* answer, however many came before it, leaves the flow Pending after one
\* more sleep; the flow ends only on another answer, which is the last one
\* polled; there is one poll per answer and one sleep per answer that did not
\* end the flow; and a Pending flow whose provider comes to another answer
\* ends, Authorized or Failed.
C20_NoAttemptLimit ==
    /\ [](/\ \A i \in 1..polls :
               IsPendingSignal(answers[i]) =>
                  /\ Len(sleeps) >= i
                  /\ i = polls => pc = "Pending"
          /\ pc = "Pending" => Len(sleeps) = polls
          /\ (Ended /\ polls >= 1) =>
                /\ ~IsPendingSignal(answers[polls])
                /\ Len(sleeps) = polls - 1
                /\ (pc = "Authorized") = (result.t = "return"))
    /\ (pc = "Pending" ~> Ended)

\* C20 witness: the flow has ended on a network failure at the fourth poll,
\* after three answers of authorization_pending or slow_down, both kinds
\* among them
C20_Witness ==
    /\ pc = "Failed" /\ polls = 4 /\ Len(sleeps) = 3
    /\ \A i \in 1..3 : IsPendingSignal(answers[i])
    /\ \E i, j \in 1..3 : answers[i] = PendingAnswer /\ answers[j] = SlowDownAnswer
    /\ answers[4] = NetworkFailure

(***************************************************************************)
(* Login and the commands after it, under Spec.                            *)
(***************************************************************************)
\* C21: a login(t) that ends otherwise than well (no endpoint, a failed
\* handshake, a poll loop that raised, a None where a payload was expected)
\* leaves the secret store, the session record and its file as they were: no
\* secret of t is stored or replaced, the tenant list and current_tenant are
\* unchanged.
C21_FailedLoginChangesNothing ==
    [][(last'.op = "login" /\ last'.outcome # "ok") =>
          /\ creds' = creds
          /\ config' = config
          /\ disk' = disk
          /\ last'.branch \in {"no_endpoint", "handshake", "poll"}]_vars

\* C21 witness: a login of a tenant that holds a token and a record, with
\* another tenant selected, has failed in the poll loop
C21_Witness ==
    /\ last.op = "login" /\ last.outcome = "exit1" /\ last.branch = "poll"
    /\ StoredToken(last.tenant) # None
    /\ last.tenant \in TenantIds(tenants)
    /\ current \in Tenants \ {last.tenant}

\* get_client(t), given t itself, has just run with an endpoint configured
\* and a working helper
Resolved(t) ==
    /\ last'.op = "get_client" /\ last'.tenant = t /\ last'.branch # "current"
    /\ ~Falsy(api_endpoint(config))
    /\ last'.helper

\* C22: with an endpoint configured and a working helper, get_client(t) right
\* after a successful login(t) returns a client with the token of that
\* login's payload, and goes on returning the stored token as long as one is
\* held for t (no logout(t) or remove_tenant(t) having erased it);
\* get_client(t) right after logout(t) ends with the missing-token usage
\* error.  (Violated: get_client calls config.get_token, which Config does
\* not define, and ends with AttributeError in every one of these cases.)
C22_LoginThenResolve ==
    [][\A t \in Tenants :
         Resolved(t) =>
            /\ (LoginDone /\ last.tenant = t /\ last.helper) =>
                  /\ last'.outcome = "ok"
                  /\ last'.client = last.payload.fields["token"]
            /\ StoredToken(t) # None =>
                  /\ last'.outcome = "ok"
                  /\ last'.client = StoredToken(t)
            /\ (last.op = "logout" /\ last.tenant = t /\ last.helper) =>
                  /\ last'.outcome = "UsageError"
                  /\ last'.branch = "no_token"]_vars

====
